---- MODULE Spec2Model ----
(***************************************************************************)
(* A model of the rgssad library (src/src/lib.rs, src/src/io_util.rs):     *)
(* the seed generator, the payload codec, the header and the two entry     *)
(* table layouts, read and write.                                          *)
(*                                                                         *)
(* A u32 is a pair <<hi, lo>> of 16-bit halves, because the values of the  *)
(* format (0xDEADCAFE, masks, overflowing offsets) need all 32 bits.       *)
(* A byte is a number in 0..255, a stream is a sequence of bytes, and a    *)
(* name is the sequence of the UTF-8 bytes of the Rust String.             *)
(* The working buffer of run_codec is taken to be 4-byte aligned, so that  *)
(* align_to_mut gives an empty prefix, the words and a 0..3 byte suffix.   *)
(***************************************************************************)
EXTENDS Integers, Sequences, FiniteSets, TLC

VARIABLES pc,         \* position of the caller in its sequence of calls
          status,     \* result of the last call: "Ok", an error, or "panic"
          codecIn,    \* the codec harness: seed, size, data, buffer lengths
          codecOut1,  \* result of the first run_codec pass
          codecOut2,  \* result of the second run_codec pass
          arch,       \* the RGSSArchive being written
          srcs,       \* the source bytes of each entry to pack
          buflen,     \* buf.len() of the working buffer the caller passes
          file,       \* the bytes of the archive file
          written,    \* indices of the entries whose payload has been written
          rarch,      \* the RGSSArchive being read
          rpos,       \* stream position of the reader
          outs        \* decoded payload per entry index, once read

vars == <<pc, status, codecIn, codecOut1, codecOut2,
          arch, srcs, buflen, file, written, rarch, rpos, outs>>

codecVars == <<codecIn, codecOut1, codecOut2>>

archVars == <<arch, srcs, buflen, file, written, rarch, rpos, outs>>

----------------------------------------------------------------------------
(* Bounds of the model *)

MaxCodecLen == 9

MaxEntries == 2

----------------------------------------------------------------------------
(* 32-bit unsigned arithmetic *)

W16 == 256 * 256

Min(a, b) == IF a <= b THEN a ELSE b

FromNat(n) == <<(n \div W16) % W16, n % W16>>

\* the value of a u32 that fits the model's numbers (hi < 2^15)
ToNat(x) == x[1] * W16 + x[2]

Bit(a, k) == (a \div k) % 2

XorNib == [a \in 0..15, b \in 0..15 |->
             ((Bit(a, 1) + Bit(b, 1)) % 2)
           + 2 * ((Bit(a, 2) + Bit(b, 2)) % 2)
           + 4 * ((Bit(a, 4) + Bit(b, 4)) % 2)
           + 8 * ((Bit(a, 8) + Bit(b, 8)) % 2)]

XorByte(a, b) == 16 * XorNib[a \div 16, b \div 16] + XorNib[(a % 16), (b % 16)]

Xor16(a, b) == 256 * XorByte(a \div 256, b \div 256) + XorByte(a % 256, b % 256)

Xor32(x, y) == <<Xor16(x[1], y[1]), Xor16(x[2], y[2])>>

\* x.wrapping_mul(k).wrapping_add(c), for small k and c
wrapping_mul_add(x, k, c) ==
    LET l == x[2] * k + c
        h == x[1] * k + (l \div W16)
    IN  <<h % W16, l % W16>>

\* u32::checked_add: None when the sum does not fit 32 bits
checked_add(x, y) ==
    LET l == x[2] + y[2]
        h == x[1] + y[1] + (l \div W16)
    IN  IF h >= W16 THEN [some |-> FALSE, val |-> <<0, 0>>]
        ELSE [some |-> TRUE, val |-> <<h, l % W16>>]

\* x - n for a small n <= x
SubNat(x, n) ==
    IF x[2] >= n THEN <<x[1], x[2] - n>>
    ELSE <<x[1] - 1, x[2] + W16 - n>>

MinNatLimit(limit, size) == limit

\* limit.min(size as usize)
MinNat(limit, size) == IF size[1] > 0 THEN limit ELSE Min(limit, size[2])

to_le_bytes(x) == <<x[2] % 256, x[2] \div 256, x[1] % 256, x[1] \div 256>>

from_le_bytes(b) == <<b[4] * 256 + b[3], b[2] * 256 + b[1]>>

\* the `as u8` cast of a u32
LowByte(x) == x[2] % 256

----------------------------------------------------------------------------
(* Seed generator *)

NextMagicSkew(magic) == wrapping_mul_add(magic, 7, 1)

NextMagic(magic) == wrapping_mul_add(magic, 7, 3)

\* advance_magic returns the old state and leaves the next one in place
advance_magic(magic) == [emitted |-> magic, magic |-> NextMagic(magic)]

----------------------------------------------------------------------------
(* Payload codec *)

\* ReadFull::read_full on a source `src` positioned at `pos` for a buffer
\* of `want` bytes: the number of bytes read (short only at end of source)
read_full(src, pos, want) ==
    IF pos >= Len(src) THEN 0 ELSE Min(want, Len(src) - pos)

\* the word loop over `middle`: word w (bytes 4w+1..4w+4) is xored with the
\* little-endian bytes of one advance_magic emission
RECURSIVE CodecWords(_, _, _, _)
CodecWords(chunk, w, nwords, magic) ==
    IF w >= nwords THEN [bytes |-> <<>>, magic |-> magic]
    ELSE LET a    == advance_magic(magic)
             k    == to_le_bytes(a.emitted)
             rest == CodecWords(chunk, w + 1, nwords, a.magic)
         IN  [bytes |-> <<XorByte(chunk[4 * w + 1], k[1]),
                          XorByte(chunk[4 * w + 2], k[2]),
                          XorByte(chunk[4 * w + 3], k[3]),
                          XorByte(chunk[4 * w + 4], k[4])>> \o rest.bytes,
              magic |-> rest.magic]

CodecSuffixAdvancing(chunk, nwords, magic) ==
    [i \in 1..(Len(chunk) - 4 * nwords) |->
        XorByte(chunk[4 * nwords + i], to_le_bytes(NextMagic(magic))[i])]

\* the suffix loop: byte i of the remainder is xored with byte i of the
\* current state, which is not advanced
CodecSuffix(chunk, nwords, magic) ==
    [i \in 1..(Len(chunk) - 4 * nwords) |->
        XorByte(chunk[4 * nwords + i], to_le_bytes(magic)[i])]

\* one pass of the loop body on the bytes read
CodecChunk(chunk, magic) ==
    LET nwords == Len(chunk) \div 4
        mid    == CodecWords(chunk, 0, nwords, magic)
    IN  [bytes |-> mid.bytes \o CodecSuffix(chunk, nwords, mid.magic),
         magic |-> mid.magic]

\* a loop that starts every chunk from the seed it was given
RECURSIVE CodecLoopRestart(_, _, _, _, _, _)
CodecLoopRestart(limit, src, pos, out, size, magic) ==
    LET read == read_full(src, pos, MinNat(limit, size))
    IN  IF read = 0
        THEN [status |-> "Ok", pos |-> pos, out |-> out,
              size |-> size, magic |-> magic]
        ELSE LET c == CodecChunk(SubSeq(src, pos + 1, pos + read), magic)
             IN  CodecLoopRestart(limit, src, pos + read, out \o c.bytes,
                                  SubNat(size, read), magic)

\* the loop of run_codec; `out` collects what write_all is given
RECURSIVE CodecLoop(_, _, _, _, _, _)
CodecLoop(limit, src, pos, out, size, magic) ==
    LET read == read_full(src, pos, MinNat(limit, size))
    IN  IF read = 0
        THEN [status |-> "Ok", pos |-> pos, out |-> out,
              size |-> size, magic |-> magic]
        ELSE LET c == CodecChunk(SubSeq(src, pos + 1, pos + read), magic)
             IN  CodecLoop(limit, src, pos + read, out \o c.bytes,
                           SubNat(size, read), c.magic)

\* run_codec(buf, input, output, size, magic) with buf.len() = limit and the
\* input positioned at pos; the result carries the bytes written
run_codec(limit, src, pos, size, magic) ==
    IF limit % 4 # 0
    THEN [status |-> "panic", pos |-> pos, out |-> <<>>,
          size |-> size, magic |-> magic]
    ELSE CodecLoop(limit, src, pos, <<>>, size, magic)


----------------------------------------------------------------------------
(* Streams *)

Zero == <<0, 0>>

\* ReadNum::read_u32_le at position pos: read_exact of 4 bytes, which fails
\* (having consumed what was left) when fewer than 4 remain
read_u32_le(data, pos) ==
    IF pos + 4 <= Len(data)
    THEN [ok |-> TRUE, val |-> from_le_bytes(SubSeq(data, pos + 1, pos + 4)),
          pos |-> pos + 4]
    ELSE [ok |-> FALSE, val |-> Zero,
          pos |-> IF pos > Len(data) THEN pos ELSE Len(data)]

\* read_exact of a buffer of `len` (a u32) bytes
read_exact(data, pos, len) ==
    IF len[1] = 0 /\ pos + len[2] <= Len(data)
    THEN [ok |-> TRUE, bytes |-> SubSeq(data, pos + 1, pos + len[2]),
          pos |-> pos + len[2]]
    ELSE [ok |-> FALSE, bytes |-> <<>>,
          pos |-> IF pos > Len(data) THEN pos ELSE Len(data)]

ZerosNone(size) == <<>>

\* vec![0; size]: a run of zero bytes; a run of 65536 bytes or more is kept
\* as one element that records its length
Zeros(size) ==
    IF size[1] = 0 THEN [i \in 1..size[2] |-> 0] ELSE <<[zeros |-> size]>>

WriteAtEnd(data, pos, bytes) == data \o bytes

\* seek(SeekFrom::Start(pos)) followed by write_all(bytes) on a file: the
\* bytes replace what is there, and a gap past the end reads as zeros
WriteAt(data, pos, bytes) ==
    IF bytes = <<>> THEN data
    ELSE [i \in 1..(IF pos + Len(bytes) > Len(data)
                    THEN pos + Len(bytes) ELSE Len(data)) |->
            IF i > pos /\ i <= pos + Len(bytes) THEN bytes[i - pos]
            ELSE IF i <= Len(data) THEN data[i] ELSE 0]

----------------------------------------------------------------------------
(* Names *)

Backslash == 92

Slash == 47

SlashNameKeep(name) == name

\* the loop that turns '\' into '/' after decoding a name
SlashName(name) ==
    [i \in 1..Len(name) |-> IF name[i] = Backslash THEN Slash ELSE name[i]]

\* the loop that turns '/' into '\' before encoding a name
BackslashName(name) ==
    [i \in 1..Len(name) |-> IF name[i] = Slash THEN Backslash ELSE name[i]]

IsCont(b) == b >= 128 /\ b <= 191

\* String::from_utf8 succeeds: the bytes from position i on are well-formed
RECURSIVE Utf8From(_, _)
Utf8From(b, i) ==
    IF i > Len(b) THEN TRUE
    ELSE LET c == b[i]
             n == Len(b) - i
         IN  IF c <= 127 THEN Utf8From(b, i + 1)
             ELSE IF c >= 194 /\ c <= 223
             THEN n >= 1 /\ IsCont(b[i + 1]) /\ Utf8From(b, i + 2)
             ELSE IF c >= 224 /\ c <= 239
             THEN /\ n >= 2
                  /\ IsCont(b[i + 1])
                  /\ IsCont(b[i + 2])
                  /\ (c = 224 => b[i + 1] >= 160)
                  /\ (c = 237 => b[i + 1] <= 159)
                  /\ Utf8From(b, i + 3)
             ELSE IF c >= 240 /\ c <= 244
             THEN /\ n >= 3
                  /\ IsCont(b[i + 1])
                  /\ IsCont(b[i + 2])
                  /\ IsCont(b[i + 3])
                  /\ (c = 240 => b[i + 1] >= 144)
                  /\ (c = 244 => b[i + 1] <= 143)
                  /\ Utf8From(b, i + 4)
             ELSE FALSE

from_utf8_any(b) == TRUE

from_utf8_ok(b) == Utf8From(b, 1)

\* the per-byte rolling cipher of a version 1/2 name: byte i is xored with
\* the low byte of one advance_magic emission
RECURSIVE RollName(_, _, _)
RollName(name, i, magic) ==
    IF i > Len(name) THEN [bytes |-> <<>>, magic |-> magic]
    ELSE LET a    == advance_magic(magic)
             rest == RollName(name, i + 1, a.magic)
         IN  [bytes |-> <<XorByte(name[i], LowByte(a.emitted))>> \o rest.bytes,
              magic |-> rest.magic]

\* the fixed-mask cipher of a version 3 name: byte i (from 0) is xored with
\* byte i % 4 of the little-endian mask
MaskName(name, xor) ==
    [i \in 1..Len(name) |-> XorByte(name[i], to_le_bytes(xor)[((i - 1) % 4) + 1])]

----------------------------------------------------------------------------
(* Archive and entries *)

Entry(name, size, offset, magic) ==
    [name |-> name, size |-> size, offset |-> offset, magic |-> magic]

\* RGSSArchive::default()
DefaultArchive == [version |-> 0, entries |-> <<>>, magic |-> Zero]

HeaderMagic == <<82, 71, 83, 83, 65, 68>>

SupportedVersionFromZero(v) == v >= 0 /\ v <= 3

\* (1..=3).contains(&version)
SupportedVersion(v) == v >= 1 /\ v <= 3

RgssadSeed == <<57005, 51966>>

\* RGSSArchive::read_header on a reader at position 0
read_header(a, data) ==
    IF Len(data) < 8
    THEN [status |-> "UnexpectedEof", arch |-> a, pos |-> Len(data)]
    ELSE IF SubSeq(data, 1, 6) # HeaderMagic
    THEN [status |-> "InvalidHeader", arch |-> a, pos |-> 8]
    ELSE LET b == [a EXCEPT !.version = data[8]]
         IN  IF ~SupportedVersion(b.version)
             THEN [status |-> "UnsupportedVersion", arch |-> b, pos |-> 8]
             ELSE [status |-> "Ok", arch |-> b, pos |-> 8]

\* RGSSArchive::write_header
write_header(a) ==
    IF ~SupportedVersion(a.version)
    THEN [status |-> "UnsupportedVersion", out |-> <<>>]
    ELSE [status |-> "Ok", out |-> HeaderMagic \o <<0, a.version>>]

----------------------------------------------------------------------------
(* Version 1/2 ("rgssad") entry table *)

HeaderSize == 8

RgssadRecordOverhead == 8

\* the loop of read_entries_rgssad from stream position pos; `entries` is
\* self.entries so far
RECURSIVE RgssadReadLoop(_, _, _, _)
RgssadReadLoop(data, pos, magic, entries) ==
    LET r1 == read_u32_le(data, pos)
    IN  IF ~r1.ok THEN [status |-> "Ok", entries |-> entries, pos |-> r1.pos]
    ELSE
    LET a1  == advance_magic(magic)
        len == Xor32(r1.val, a1.emitted)
        r2  == read_exact(data, r1.pos, len)
    IN  IF ~r2.ok
        THEN [status |-> "UnexpectedEof", entries |-> entries, pos |-> r2.pos]
    ELSE
    LET dec  == RollName(r2.bytes, 1, a1.magic)
        name == SlashName(dec.bytes)
    IN  IF ~from_utf8_ok(name)
        THEN [status |-> "Ok", entries |-> entries, pos |-> r2.pos]
    ELSE
    LET r3 == read_u32_le(data, r2.pos)
    IN  IF ~r3.ok THEN [status |-> "Ok", entries |-> entries, pos |-> r3.pos]
    ELSE
    LET a3     == advance_magic(dec.magic)
        size   == Xor32(r3.val, a3.emitted)
        offset == FromNat(r3.pos)
    IN  RgssadReadLoop(data, r3.pos + ToNat(size), a3.magic,
                       Append(entries, Entry(name, size, offset, a3.magic)))

read_entries_rgssad(a, data, pos) ==
    LET r == RgssadReadLoop(data, pos, RgssadSeed, a.entries)
    IN  [status |-> r.status, arch |-> [a EXCEPT !.entries = r.entries],
         pos |-> r.pos]

\* the loop of write_entries_rgssad from entry k on; `out` is what has been
\* written to the sink, `entries` carries the offsets and seeds assigned
RECURSIVE RgssadWriteLoop(_, _, _, _, _)
RgssadWriteLoop(entries, k, offset, magic, out) ==
    IF k > Len(entries)
    THEN [status |-> "Ok", entries |-> entries, out |-> out]
    ELSE
    LET entry    == entries[k]
        name_len == FromNat(Len(entry.name))
        a1       == advance_magic(magic)
        enc      == RollName(BackslashName(entry.name), 1, a1.magic)
        a3       == advance_magic(enc.magic)
        out3     == out \o to_le_bytes(Xor32(name_len, a1.emitted))
                        \o enc.bytes
                        \o to_le_bytes(Xor32(entry.size, a3.emitted))
        o1       == checked_add(offset, name_len)
        o2       == checked_add(o1.val, FromNat(RgssadRecordOverhead))
        set      == [entries EXCEPT ![k].offset = o2.val, ![k].magic = a3.magic]
        o3       == checked_add(o2.val, entry.size)
    IN  IF ~o1.some \/ ~o2.some
        THEN [status |-> "panic", entries |-> entries, out |-> out3]
        ELSE IF ~o3.some
        THEN [status |-> "panic", entries |-> set,
              out |-> out3 \o Zeros(entry.size)]
        ELSE RgssadWriteLoop(set, k + 1, o3.val, a3.magic,
                             out3 \o Zeros(entry.size))

write_entries_rgssad(a) ==
    LET r == RgssadWriteLoop(a.entries, 1, FromNat(HeaderSize), RgssadSeed, <<>>)
    IN  [status |-> r.status, arch |-> [a EXCEPT !.entries = r.entries],
         out |-> r.out]

----------------------------------------------------------------------------
(* Version 3 ("rgss3a") entry table *)

Rgss3aBase == 16

Rgss3aRecordOverhead == 16

Rgss3aMaskSeven(magic) == wrapping_mul_add(magic, 7, 3)

\* the table mask: magic.wrapping_mul(9).wrapping_add(3)
Rgss3aMask(magic) == wrapping_mul_add(magic, 9, 3)

\* the loop of read_entries_rgss3a
RECURSIVE Rgss3aReadLoop(_, _, _, _)
Rgss3aReadLoop(data, pos, xor, entries) ==
    LET r1 == read_u32_le(data, pos)
    IN  IF ~r1.ok THEN [status |-> "Ok", entries |-> entries, pos |-> r1.pos]
    ELSE
    LET offset == Xor32(r1.val, xor)
    IN  IF offset = Zero
        THEN [status |-> "Ok", entries |-> entries, pos |-> r1.pos]
    ELSE
    LET r2 == read_u32_le(data, r1.pos)
    IN  IF ~r2.ok THEN [status |-> "Ok", entries |-> entries, pos |-> r2.pos]
    ELSE
    LET r3 == read_u32_le(data, r2.pos)
    IN  IF ~r3.ok THEN [status |-> "Ok", entries |-> entries, pos |-> r3.pos]
    ELSE
    LET r4 == read_u32_le(data, r3.pos)
    IN  IF ~r4.ok THEN [status |-> "Ok", entries |-> entries, pos |-> r4.pos]
    ELSE
    LET r5 == read_exact(data, r4.pos, Xor32(r4.val, xor))
    IN  IF ~r5.ok
        THEN [status |-> "UnexpectedEof", entries |-> entries, pos |-> r5.pos]
    ELSE
    LET name == SlashName(MaskName(r5.bytes, xor))
    IN  IF ~from_utf8_ok(name)
        THEN [status |-> "Ok", entries |-> entries, pos |-> r5.pos]
        ELSE Rgss3aReadLoop(data, r5.pos, xor,
                 Append(entries, Entry(name, Xor32(r2.val, xor), offset,
                                       Xor32(r3.val, xor))))

read_entries_rgss3a(a, data, pos) ==
    LET r0 == read_u32_le(data, pos)
    IN  IF ~r0.ok
        THEN [status |-> "UnexpectedEof", arch |-> a, pos |-> r0.pos]
        ELSE LET r == Rgss3aReadLoop(data, r0.pos, Rgss3aMask(r0.val), a.entries)
             IN  [status |-> r.status,
                  arch |-> [a EXCEPT !.magic = r0.val, !.entries = r.entries],
                  pos |-> r.pos]

\* the first loop of write_entries_rgss3a: the size of the table, or None
RECURSIVE Rgss3aTableEnd(_, _, _)
Rgss3aTableEnd(entries, k, offset) ==
    IF k > Len(entries) THEN [some |-> TRUE, val |-> offset]
    ELSE LET o1 == checked_add(offset, FromNat(Len(entries[k].name)))
             o2 == checked_add(o1.val, FromNat(Rgss3aRecordOverhead))
         IN  IF ~o1.some \/ ~o2.some THEN [some |-> FALSE, val |-> Zero]
             ELSE Rgss3aTableEnd(entries, k + 1, o2.val)

\* the second loop: entry k gets the running offset, which grows by its size
RECURSIVE Rgss3aAssign(_, _, _)
Rgss3aAssign(entries, k, offset) ==
    IF k > Len(entries) THEN [status |-> "Ok", entries |-> entries]
    ELSE LET set == [entries EXCEPT ![k].offset = offset]
             o   == checked_add(offset, entries[k].size)
         IN  IF ~o.some THEN [status |-> "panic", entries |-> set]
             ELSE Rgss3aAssign(set, k + 1, o.val)

\* the third loop: the records, each field xored with the mask
RECURSIVE Rgss3aRecords(_, _, _)
Rgss3aRecords(entries, k, xor) ==
    IF k > Len(entries) THEN <<>>
    ELSE LET entry == entries[k]
         IN  to_le_bytes(Xor32(entry.offset, xor))
             \o to_le_bytes(Xor32(entry.size, xor))
             \o to_le_bytes(Xor32(entry.magic, xor))
             \o to_le_bytes(Xor32(FromNat(Len(entry.name)), xor))
             \o MaskName(BackslashName(entry.name), xor)
             \o Rgss3aRecords(entries, k + 1, xor)

write_entries_rgss3a(a) ==
    LET end == Rgss3aTableEnd(a.entries, 1, FromNat(Rgss3aBase))
    IN  IF ~end.some THEN [status |-> "panic", arch |-> a, out |-> <<>>]
    ELSE
    LET set == Rgss3aAssign(a.entries, 1, end.val)
        b   == [a EXCEPT !.entries = set.entries]
        xor == Rgss3aMask(a.magic)
    IN  IF set.status # "Ok" THEN [status |-> "panic", arch |-> b, out |-> <<>>]
        ELSE [status |-> "Ok", arch |-> b,
              out |-> to_le_bytes(a.magic) \o Rgss3aRecords(b.entries, 1, xor)
                      \o to_le_bytes(xor)]

----------------------------------------------------------------------------
(* Version dispatch and payload access *)

\* RGSSArchive::read_entries
read_entries(a, data, pos) ==
    IF a.version \in {1, 2} THEN read_entries_rgssad(a, data, pos)
    ELSE IF a.version = 3 THEN read_entries_rgss3a(a, data, pos)
    ELSE [status |-> "UnsupportedVersion", arch |-> a, pos |-> pos]

\* RGSSArchive::write_entries
write_entries(a) ==
    IF a.version \in {1, 2} THEN write_entries_rgssad(a)
    ELSE IF a.version = 3 THEN write_entries_rgss3a(a)
    ELSE [status |-> "UnsupportedVersion", arch |-> a, out |-> <<>>]

\* RGSSArchiveEntry::read: the payload decoded from the archive bytes
EntryRead(entry, limit, data) ==
    run_codec(limit, data, ToNat(entry.offset), entry.size, entry.magic)

\* RGSSArchiveEntry::write: the archive bytes after the payload read from
\* `src` has been encoded in place at the entry's offset
EntryWrite(entry, limit, data, src) ==
    LET r == run_codec(limit, src, 0, entry.size, entry.magic)
    IN  [status |-> r.status,
         data |-> WriteAt(data, ToNat(entry.offset), r.out)]

----------------------------------------------------------------------------
(* Inputs of the codec harness *)

\* byte patterns of a given length: 0x11, 0x22, 0x33, ... shifted by a tag
Pattern(tag, n) == [i \in 1..n |-> (tag + 17 * i) % 256]

PatternTags == {0, 165}

CodecSeeds == {<<0, 0>>, <<57005, 51966>>, <<65535, 65535>>}

CodecBufLens == {0, 4, 6, 8}

CodecSizes == {FromNat(n) : n \in 0..(MaxCodecLen + 1)} \cup {<<65535, 65535>>}

CodecInputs ==
    [seed : CodecSeeds, size : CodecSizes,
     data : {Pattern(t, n) : t \in PatternTags, n \in 0..MaxCodecLen},
     buf1 : CodecBufLens, buf2 : CodecBufLens]

NoCodec == [status |-> "none", pos |-> 0, out |-> <<>>,
            size |-> <<0, 0>>, magic |-> <<0, 0>>]

InitCodec ==
    /\ pc = "codec"
    /\ status = "none"
    /\ codecIn \in CodecInputs
    /\ codecOut1 = NoCodec
    /\ codecOut2 = NoCodec
    /\ arch = DefaultArchive
    /\ srcs = <<>>
    /\ buflen = 0
    /\ file = <<>>
    /\ written = {}
    /\ rarch = DefaultArchive
    /\ rpos = 0
    /\ outs = <<>>

\* first pass: the codec over the input data
CodecFirst ==
    /\ pc = "codec"
    /\ LET r == run_codec(codecIn.buf1, codecIn.data, 0, codecIn.size, codecIn.seed)
       IN  /\ codecOut1' = r
           /\ status' = r.status
           /\ pc' = IF r.status = "Ok" THEN "codec1" ELSE "panicked"
    /\ UNCHANGED <<codecIn, codecOut2>>
    /\ UNCHANGED archVars

\* second pass: the codec, same seed and size, over the first pass's output
CodecSecond ==
    /\ pc = "codec1"
    /\ LET r == run_codec(codecIn.buf2, codecOut1.out, 0, codecIn.size, codecIn.seed)
       IN  /\ codecOut2' = r
           /\ status' = r.status
           /\ pc' = IF r.status = "Ok" THEN "codec2" ELSE "panicked"
    /\ UNCHANGED <<codecIn, codecOut1>>
    /\ UNCHANGED archVars

NextCodec == CodecFirst \/ CodecSecond

SpecCodec == InitCodec /\ [][NextCodec]_vars

----------------------------------------------------------------------------
(* Packing an archive and reading it back *)

Versions == {1, 2, 3}

BadVersions == {0, 4}

\* "a", "d/b", "c\"
NameSamples == {<<97>>, <<100, 47, 98>>, <<99, 92>>}

PayloadLens == {0, 3, 5}

BufLens == {0, 4, 8}

\* base seed of the archive and the seed the caller gives each entry
SeedConfigs == {[base |-> Zero, entry |-> Zero],
                [base |-> <<57005, 48879>>, entry |-> <<35243, 52719>>]}

\* a declared size no archive can hold
OverSize == <<65535, 65535>>

\* the entry lists: a name and a payload length per entry
Shapes == UNION {[1..n -> NameSamples \X PayloadLens] : n \in 0..MaxEntries}

\* the source bytes of entry i
SourceOf(i, len) == Pattern(32 * i, len)

AllWritten == written = 1..Len(arch.entries)

InitArchive ==
    /\ pc = "new"
    /\ status = "none"
    /\ codecIn = [seed |-> Zero, size |-> Zero, data |-> <<>>,
                  buf1 |-> 0, buf2 |-> 0]
    /\ codecOut1 = NoCodec
    /\ codecOut2 = NoCodec
    /\ \E shape \in Shapes, cfg \in SeedConfigs :
         \E v \in (IF Len(shape) = 0 THEN Versions \cup BadVersions ELSE Versions),
            over \in 0..Len(shape) :
           /\ srcs = [i \in 1..Len(shape) |-> SourceOf(i, shape[i][2])]
           /\ arch = [version |-> v,
                      entries |-> [i \in 1..Len(shape) |->
                          Entry(shape[i][1],
                                IF i = over THEN OverSize
                                ELSE FromNat(shape[i][2]),
                                Zero, cfg.entry)],
                      magic |-> cfg.base]
    /\ buflen \in BufLens
    /\ file = <<>>
    /\ written = {}
    /\ rarch = DefaultArchive
    /\ rpos = 0
    /\ outs = <<>>

\* archive.write_header(&mut w) on the empty file
WriteHeader ==
    /\ pc = "new"
    /\ LET r == write_header(arch)
       IN  /\ file' = file \o r.out
           /\ status' = r.status
           /\ pc' = IF r.status = "Ok" THEN "header" ELSE "failed"
    /\ UNCHANGED <<arch, srcs, buflen, written, rarch, rpos, outs>>
    /\ UNCHANGED codecVars

\* archive.write_entries(&mut w) right after the header
WriteEntries ==
    /\ pc = "header"
    /\ LET r == write_entries(arch)
       IN  /\ arch' = r.arch
           /\ file' = file \o r.out
           /\ status' = r.status
           /\ pc' = IF r.status = "Ok" THEN "table" ELSE "panicked"
    /\ UNCHANGED <<srcs, buflen, written, rarch, rpos, outs>>
    /\ UNCHANGED codecVars

\* entry.write(&mut buf, &mut w, &mut source) for an entry not yet written
WritePayload(i) ==
    /\ pc = "table"
    /\ i \in (1..Len(arch.entries)) \ written
    /\ LET r == EntryWrite(arch.entries[i], buflen, file, srcs[i])
       IN  /\ file' = r.data
           /\ status' = r.status
    /\ written' = written \cup {i}
    /\ UNCHANGED <<pc, arch, srcs, buflen, rarch, rpos, outs>>
    /\ UNCHANGED codecVars

\* a fresh archive reads the header of the file, either right after the
\* table was written or once every payload is in place
ReadHeader ==
    /\ pc = "table"
    /\ written = {} \/ AllWritten
    /\ LET r == read_header(rarch, file)
       IN  /\ rarch' = r.arch
           /\ rpos' = r.pos
           /\ status' = r.status
           /\ pc' = IF r.status = "Ok" THEN "rheader" ELSE "failed"
    /\ UNCHANGED <<arch, srcs, buflen, file, written, outs>>
    /\ UNCHANGED codecVars

\* archive.read_entries(&mut r) with the reader right after the header
ReadEntries ==
    /\ pc = "rheader"
    /\ LET r == read_entries(rarch, file, rpos)
       IN  /\ rarch' = r.arch
           /\ rpos' = r.pos
           /\ status' = r.status
           /\ pc' = IF r.status = "Ok" THEN "rtable" ELSE "failed"
    /\ UNCHANGED <<arch, srcs, buflen, file, written, outs>>
    /\ UNCHANGED codecVars

\* entry.read(&mut buf, &mut r, &mut sink) for an entry not yet read
ReadPayload(i) ==
    /\ pc = "rtable"
    /\ i \in (1..Len(rarch.entries)) \ DOMAIN outs
    /\ LET r == EntryRead(rarch.entries[i], buflen, file)
       IN  /\ outs' = (i :> r.out) @@ outs
           /\ status' = r.status
    /\ UNCHANGED <<pc, arch, srcs, buflen, file, written, rarch, rpos>>
    /\ UNCHANGED codecVars

NextArchive ==
    \/ WriteHeader
    \/ WriteEntries
    \/ \E i \in 1..MaxEntries : WritePayload(i)
    \/ ReadHeader
    \/ ReadEntries
    \/ \E i \in 1..MaxEntries : ReadPayload(i)

SpecArchive == InitArchive /\ [][NextArchive]_vars

----------------------------------------------------------------------------
(* Reading a header from arbitrary bytes *)

\* the well-formed header of version byte v with byte 6 set to z
HeaderOf(z, v) == <<82, 71, 83, 83, 65, 68, z, v>>

VersionBytes == {0, 1, 2, 3, 4, 255}

\* bytes put in place of a byte of the magic
WrongBytes == {0, 114, 255}

\* well-formed headers, headers with one byte of the magic replaced, and
\* headers cut short
HeaderInputs ==
    LET good == {HeaderOf(z, v) : z \in {0, 1}, v \in VersionBytes}
    IN  good
        \cup {[h EXCEPT ![p] = w] : h \in good, p \in 1..6, w \in WrongBytes}
        \cup {SubSeq(HeaderOf(0, 1), 1, n) : n \in 0..7}

InitHeader ==
    /\ pc = "table"
    /\ status = "none"
    /\ codecIn = [seed |-> Zero, size |-> Zero, data |-> <<>>,
                  buf1 |-> 0, buf2 |-> 0]
    /\ codecOut1 = NoCodec
    /\ codecOut2 = NoCodec
    /\ arch = DefaultArchive
    /\ srcs = <<>>
    /\ buflen = 0
    /\ file \in HeaderInputs
    /\ written = {}
    /\ rarch = DefaultArchive
    /\ rpos = 0
    /\ outs = <<>>

NextHeader == ReadHeader

SpecHeader == InitHeader /\ [][NextHeader]_vars

----------------------------------------------------------------------------
(* Reading a table from truncated or foreign bytes *)

\* "a", U+00E9 in two bytes, and a sequence that is not UTF-8
RawNames == {<<97>>, <<195, 169>>, <<255, 98>>}

ValidRawNames == {<<97>>, <<195, 169>>}

RawSizes == {0, 2}

\* bytes that follow the terminator of a version 3 table
Trail == <<1, 2, 3, 4, 5>>

RawShapes == UNION {[1..n -> RawNames \X RawSizes] : n \in 0..MaxEntries}

\* the archive a producer laid out for a shape: `arch` keeps its entries
\* (their names as raw bytes), `file` the first bytes of what it wrote
InitParse ==
    /\ pc = "table"
    /\ status = "none"
    /\ codecIn = [seed |-> Zero, size |-> Zero, data |-> <<>>,
                  buf1 |-> 0, buf2 |-> 0]
    /\ codecOut1 = NoCodec
    /\ codecOut2 = NoCodec
    /\ srcs = <<>>
    /\ buflen = 0
    /\ written = {}
    /\ rarch = DefaultArchive
    /\ rpos = 0
    /\ outs = <<>>
    /\ \E shape \in RawShapes, v \in Versions, cfg \in SeedConfigs :
         LET a == [version |-> v,
                   entries |-> [i \in 1..Len(shape) |->
                       Entry(shape[i][1], FromNat(shape[i][2]), Zero, cfg.entry)],
                   magic |-> cfg.base]
             t == write_entries(a)
             full == write_header(a).out \o t.out
                     \o (IF v = 3 THEN Trail ELSE <<>>)
         IN  /\ arch = t.arch
             /\ \E cut \in 0..Len(full) : file = SubSeq(full, 1, cut)

NextParse == ReadHeader \/ ReadEntries

SpecParse == InitParse /\ [][NextParse]_vars

----------------------------------------------------------------------------
(* Properties of the payload codec (SpecCodec) *)

\* the buffer lengths the codec is specified for
GoodBuf(l) == l # 0 /\ l % 4 = 0

\* seed state s_k of the reference: s_0 = s, s_(k+1) = s_k * 7 + 3 mod 2^32
RECURSIVE SeedAt(_, _)
SeedAt(s, k) == IF k = 0 THEN s ELSE SeedAt(wrapping_mul_add(s, 7, 3), k - 1)

\* byte j (from 0) of the reference keystream of seed s
KeyByte(s, j) == to_le_bytes(SeedAt(s, j \div 4))[(j % 4) + 1]

\* C2: the codec is its own inverse. With an input of exactly `size` bytes
\* and non-zero multiple-of-4 buffer lengths in both passes, the second
\* pass over the output of the first returns the input.
C2_CodecInvolution ==
    (/\ pc = "codec2"
     /\ codecIn.size = FromNat(Len(codecIn.data))
     /\ GoodBuf(codecIn.buf1)
     /\ GoodBuf(codecIn.buf2))
    => codecOut2.out = codecIn.data

C2_Witness ==
    /\ pc = "codec2"
    /\ codecIn.size = FromNat(Len(codecIn.data))
    /\ Len(codecIn.data) = 9
    /\ codecIn.buf1 = 4
    /\ codecIn.buf2 = 8
    /\ codecOut1.out # codecIn.data
    /\ codecOut2.out = codecIn.data

\* C10: the keystream reference. With at least `size` = n input bytes and
\* a non-zero multiple-of-4 buffer length, the output has n bytes and byte
\* j is the input byte xored with byte j mod 4 of the little-endian
\* encoding of s_(j div 4), whatever the buffer length.
C10_KeystreamReference ==
    (/\ pc \in {"codec1", "codec2"}
     /\ GoodBuf(codecIn.buf1)
     /\ codecIn.size[1] = 0
     /\ codecIn.size[2] <= Len(codecIn.data))
    => /\ Len(codecOut1.out) = codecIn.size[2]
       /\ \A j \in 0..(codecIn.size[2] - 1) :
            codecOut1.out[j + 1]
              = XorByte(codecIn.data[j + 1], KeyByte(codecIn.seed, j))

C10_Witness ==
    /\ pc = "codec1"
    /\ codecIn.buf1 = 4
    /\ codecIn.size = FromNat(7)
    /\ Len(codecIn.data) = 9
    /\ codecIn.seed = <<57005, 51966>>
    /\ Len(codecOut1.out) = 7

\* min(n, a) for a size n (a u32) and a number a of source bytes
MinSizeLen(size, a) == IF size[1] = 0 /\ size[2] < a THEN size[2] ELSE a

\* the first pass returned Ok having read and written exactly min(n, a)
\* bytes, none when n = 0
CodecLengthHolds ==
    /\ codecOut1.status = "Ok"
    /\ codecOut1.pos = MinSizeLen(codecIn.size, Len(codecIn.data))
    /\ Len(codecOut1.out) = MinSizeLen(codecIn.size, Len(codecIn.data))
    /\ (codecIn.size = <<0, 0>> => codecOut1.pos = 0 /\ codecOut1.out = <<>>)

\* C11 as stated: for every size n, source of a bytes and non-zero buffer
\* length, run_codec returns Ok having read and written min(n, a) bytes.
C11_AnyNonZeroBuffer ==
    (codecOut1.status # "none" /\ codecIn.buf1 # 0) => CodecLengthHolds

\* C11: for every size n, source of a bytes and buffer length that is
\* non-zero and a multiple of 4, run_codec returns Ok having read exactly
\* min(n, a) bytes from the source and written min(n, a) bytes to the sink;
\* a source shorter than n is no error, and n = 0 reads and writes nothing.
C11_CodecLength ==
    (codecOut1.status # "none" /\ GoodBuf(codecIn.buf1)) => CodecLengthHolds

\* a source of 5 bytes for a size of 9, in chunks of 4
C11_Witness ==
    /\ pc = "codec1"
    /\ codecIn.buf1 = 4
    /\ Len(codecIn.data) = 5
    /\ codecIn.size = FromNat(9)
    /\ codecOut1.status = "Ok"
    /\ codecOut1.pos = 5
    /\ Len(codecOut1.out) = 5

----------------------------------------------------------------------------
(* Properties of packing and reading back (SpecArchive) *)

NoBackslash(name) == \A i \in 1..Len(name) : name[i] # Backslash

\* every entry was declared with the length of its source
SizesMatch ==
    \A i \in 1..Len(arch.entries) : arch.entries[i].size = FromNat(Len(srcs[i]))

\* header, table and every payload written, then header and table read
RoundTripCase ==
    /\ pc \in {"rtable", "failed"}
    /\ arch.version \in Versions
    /\ Len(arch.entries) >= 1
    /\ SizesMatch
    /\ AllWritten

RoundTripHolds ==
    /\ pc = "rtable"
    /\ Len(rarch.entries) = Len(arch.entries)
    /\ \A i \in 1..Len(arch.entries) :
         /\ rarch.entries[i].name = arch.entries[i].name
         /\ rarch.entries[i].size = arch.entries[i].size
    /\ \A i \in DOMAIN outs : outs[i] = srcs[i]

\* C1 as stated: the round trip gives back every name, size and payload,
\* for any names.
C1_RoundTripAnyName == RoundTripCase => RoundTripHolds

\* C1: the round trip gives back every name, size and payload, for names
\* without a backslash and a working buffer that is not empty.
C1_RoundTrip ==
    (/\ RoundTripCase
     /\ \A i \in 1..Len(arch.entries) : NoBackslash(arch.entries[i].name)
     /\ buflen # 0)
    => RoundTripHolds

C1_Witness ==
    /\ RoundTripCase
    /\ pc = "rtable"
    /\ Len(arch.entries) = 2
    /\ arch.entries[1].name = <<100, 47, 98>>
    /\ NoBackslash(arch.entries[2].name)
    /\ Len(srcs[1]) = 5
    /\ Len(srcs[2]) = 3
    /\ buflen = 4
    /\ DOMAIN outs = {1, 2}
    /\ outs[1] = srcs[1]
    /\ outs[2] = srcs[2]

\* C4: the offset and seed write_entries leaves in each entry are the ones
\* read_entries finds for it in the bytes written.
C4_DerivedFieldsAgree ==
    (pc \in {"rtable", "failed"} /\ arch.version \in Versions)
    => /\ pc = "rtable"
       /\ Len(rarch.entries) = Len(arch.entries)
       /\ \A i \in 1..Len(arch.entries) :
            /\ rarch.entries[i].offset = arch.entries[i].offset
            /\ rarch.entries[i].magic = arch.entries[i].magic

C4_Witness ==
    /\ pc = "rtable"
    /\ written = {}
    /\ arch.version = 1
    /\ Len(arch.entries) = 2
    /\ Len(srcs[1]) = 5
    /\ rarch.entries[2].offset = arch.entries[2].offset
    /\ rarch.entries[2].magic = arch.entries[2].magic
    /\ arch.entries[2].magic # Zero

\* number of advance_magic calls of the records of entries 1..k
RECURSIVE Advances(_, _)
Advances(entries, k) ==
    IF k = 0 THEN 0 ELSE Advances(entries, k - 1) + 1 + Len(entries[k].name) + 1

\* the seeds of the first n entries are the states after their own records
SeedsAfterOwnRecord(entries, n) ==
    \A k \in 1..n : entries[k].magic = SeedAt(RgssadSeed, Advances(entries, k))

\* the seeds of the first n entries are the states after the records before
SeedsAfterEarlierRecords(entries, n) ==
    \A k \in 1..n : entries[k].magic = SeedAt(RgssadSeed, Advances(entries, k - 1))

\* C5 as stated: in a version 1/2 table pass the seed of entry k is the
\* state left after the records of the entries before k.
C5_SeedAfterEarlierRecords ==
    /\ (arch.version \in {1, 2} /\ pc \in {"table", "rheader", "rtable"})
       => SeedsAfterEarlierRecords(arch.entries, Len(arch.entries))
    /\ (arch.version \in {1, 2} /\ pc = "rtable")
       => SeedsAfterEarlierRecords(rarch.entries, Len(rarch.entries))

\* C5: in a version 1/2 table pass, written or read, the seed of entry k
\* is the state left after the records of entries 0..k, its own included,
\* each record taking 1 + name_len + 1 advances from 0xDEADCAFE.
C5_SeedContinuity ==
    /\ (arch.version \in {1, 2} /\ pc \in {"table", "rheader", "rtable"})
       => SeedsAfterOwnRecord(arch.entries, Len(arch.entries))
    /\ (arch.version \in {1, 2} /\ pc = "rtable")
       => /\ Len(rarch.entries) = Len(arch.entries)
          /\ SeedsAfterOwnRecord(rarch.entries, Len(rarch.entries))

C5_Witness ==
    /\ arch.version = 2
    /\ pc = "rtable"
    /\ Len(rarch.entries) = 2
    /\ Len(arch.entries[1].name) = 3
    /\ Len(arch.entries[2].name) = 1
    /\ rarch.entries[2].magic = SeedAt(RgssadSeed, 8)

\* the end of a version 3 table: header, base seed, records, terminator
RECURSIVE Rgss3aTableLen(_, _)
Rgss3aTableLen(entries, k) ==
    IF k = 0 THEN 8 + 4 + 4
    ELSE Rgss3aTableLen(entries, k - 1) + 16 + Len(entries[k].name)

\* C6: a version 3 table ends with the mask base_seed * 9 + 3 as one
\* little-endian word, an empty one is the base seed and the mask alone;
\* reading stops without error right after the terminator word, with the
\* entries before it and nothing for it.
C6_Terminator ==
    /\ (arch.version = 3 /\ pc = "table" /\ written = {})
       => /\ Len(file) = Rgss3aTableLen(arch.entries, Len(arch.entries))
          /\ SubSeq(file, Len(file) - 3, Len(file))
               = to_le_bytes(wrapping_mul_add(arch.magic, 9, 3))
          /\ (arch.entries = <<>>
              => file = HeaderMagic \o <<0, 3>> \o to_le_bytes(arch.magic)
                        \o to_le_bytes(wrapping_mul_add(arch.magic, 9, 3)))
    /\ (arch.version = 3 /\ pc \in {"rtable", "failed"})
       => /\ pc = "rtable"
          /\ status = "Ok"
          /\ rpos = Rgss3aTableLen(arch.entries, Len(arch.entries))
          /\ Len(rarch.entries) = Len(arch.entries)

C6_Witness ==
    /\ arch.version = 3
    /\ pc = "rtable"
    /\ outs = <<>>
    /\ arch.magic # Zero
    /\ Len(arch.entries) = 2
    /\ Len(rarch.entries) = 2
    /\ AllWritten
    /\ Len(file) > rpos

\* C7 as stated: when the offsets of write_entries do not fit 32 bits, the
\* call returns an InvalidData error; it does not abort.
C7_OverflowIsError ==
    (/\ pc \notin {"new", "header"}
     /\ \E i \in 1..Len(arch.entries) : arch.entries[i].size = OverSize)
    => (pc = "failed" /\ status = "InvalidData")

----------------------------------------------------------------------------
(* Properties of read_header (SpecHeader) *)

\* C3: on an 8-byte header, a magic other than "RGSSAD" is InvalidHeader
\* whatever the version byte, the magic with a version byte outside 1..3
\* is UnsupportedVersion, and anything else is read with version = byte 7;
\* 52 47 53 53 41 44 00 01 is version 1.
C3_HeaderOutcome ==
    (pc \in {"rheader", "failed"} /\ Len(file) = 8)
    => /\ (SubSeq(file, 1, 6) # <<82, 71, 83, 83, 65, 68>>
           => status = "InvalidHeader")
       /\ (SubSeq(file, 1, 6) = <<82, 71, 83, 83, 65, 68>> /\ file[8] \notin {1, 2, 3}
           => status = "UnsupportedVersion")
       /\ (SubSeq(file, 1, 6) = <<82, 71, 83, 83, 65, 68>> /\ file[8] \in {1, 2, 3}
           => status = "Ok" /\ pc = "rheader" /\ rarch.version = file[8])
       /\ (file = <<82, 71, 83, 83, 65, 68, 0, 1>>
           => status = "Ok" /\ rarch.version = 1)

C3_Witness ==
    /\ pc = "rheader"
    /\ file = <<82, 71, 83, 83, 65, 68, 0, 1>>
    /\ status = "Ok"
    /\ rarch.version = 1

----------------------------------------------------------------------------
(* Properties of read_entries on truncated input (SpecParse) *)

\* where record k of a version 1/2 table starts in the file
RECURSIVE RgssadRecordStart(_, _)
RgssadRecordStart(entries, k) ==
    IF k = 1 THEN 8
    ELSE RgssadRecordStart(entries, k - 1)
         + 4 + Len(entries[k - 1].name) + 4 + entries[k - 1].size[2]

\* where record k of a version 3 table starts in the file
RECURSIVE Rgss3aRecordStart(_, _)
Rgss3aRecordStart(entries, k) ==
    IF k = 1 THEN 12
    ELSE Rgss3aRecordStart(entries, k - 1) + 16 + Len(entries[k - 1].name)

\* record k is in the file up to and including its last field, and its
\* name is text
RgssadRecordWhole(k) ==
    /\ arch.entries[k].name \in ValidRawNames
    /\ Len(file) >= RgssadRecordStart(arch.entries, k)
                    + 4 + Len(arch.entries[k].name) + 4

\* the number of leading records that are whole
RECURSIVE RgssadWholeRecords(_)
RgssadWholeRecords(k) ==
    IF k <= Len(arch.entries) /\ RgssadRecordWhole(k)
    THEN RgssadWholeRecords(k + 1) ELSE k - 1

\* the file ends inside the name bytes of record k, after its length field
EndsInRgssadName(k) ==
    /\ k <= Len(arch.entries)
    /\ Len(file) >= RgssadRecordStart(arch.entries, k) + 4
    /\ Len(file) < RgssadRecordStart(arch.entries, k) + 4 + Len(arch.entries[k].name)

RgssadParsed ==
    /\ arch.version \in {1, 2}
    /\ Len(file) >= 8
    /\ pc \in {"rtable", "failed"}

\* the entries read are the whole records, in order
RgssadKeepsWholeRecords ==
    /\ Len(rarch.entries) = RgssadWholeRecords(1)
    /\ \A i \in 1..Len(rarch.entries) :
         /\ rarch.entries[i].name = arch.entries[i].name
         /\ rarch.entries[i].size = arch.entries[i].size

EndsInRgss3aRecord(k) ==
    /\ k <= Len(arch.entries)
    /\ Len(file) >= Rgss3aRecordStart(arch.entries, k) + 4
    /\ Len(file) < Rgss3aRecordStart(arch.entries, k) + 16 + Len(arch.entries[k].name)

\* C9 as stated: once a version 3 record's offset has decoded to a
\* non-zero value, the input ending before the end of that record is an
\* InvalidData error of read_entries.
C9_TruncatedRecordIsError ==
    (/\ arch.version = 3
     /\ pc \in {"rtable", "failed"}
     /\ \E k \in 1..Len(arch.entries) :
          /\ EndsInRgss3aRecord(k)
          /\ \A i \in 1..(k - 1) : arch.entries[i].name \in ValidRawNames)
    => status = "InvalidData"

----------------------------------------------------------------------------
(* Properties of the payload regions (SpecArchive) *)

\* the table has been written without overflow
TableWritten ==
    /\ pc \in {"table", "rheader", "rtable"}
    /\ arch.version \in Versions

RangeStart(k) == ToNat(arch.entries[k].offset)

RangeEnd(k) == ToNat(arch.entries[k].offset) + ToNat(arch.entries[k].size)

\* position p (from 1) of the file is in the range of entry k
InRange(k, p) == p > RangeStart(k) /\ p <= RangeEnd(k)

RECURSIVE SizesBefore(_)
SizesBefore(k) ==
    IF k = 1 THEN 0 ELSE SizesBefore(k - 1) + ToNat(arch.entries[k - 1].size)

\* where the layout of the format puts the payload of entry k: right after
\* its own record (version 1/2), or after the terminator and the payloads
\* of the entries before it (version 3)
PayloadStart(k) ==
    IF arch.version = 3
    THEN Rgss3aTableLen(arch.entries, Len(arch.entries)) + SizesBefore(k)
    ELSE RgssadRecordStart(arch.entries, k) + 4 + Len(arch.entries[k].name) + 4

\* where the bytes that are not payload end after entry k: the start of the
\* next record (version 1/2); the ranges touch in version 3
NextStart(k) ==
    IF arch.version = 3 THEN PayloadStart(k) + ToNat(arch.entries[k].size)
    ELSE RgssadRecordStart(arch.entries, k + 1)

\* header and table as write_header and write_entries leave them
TableBytes == write_header(arch).out \o write_entries(arch).out

\* the ranges are where the layout puts them, in table order, pairwise
\* disjoint, and clear of the header and of every record
RegionsLaidOut ==
    LET table == TableBytes
    IN  /\ \A k \in 1..Len(arch.entries) :
             /\ RangeStart(k) = PayloadStart(k)
             /\ RangeEnd(k) = NextStart(k)
             /\ RangeStart(k) >= (IF arch.version = 3 THEN Len(table) ELSE 8)
        /\ \A j, k \in 1..Len(arch.entries) :
             /\ j < k => RangeEnd(j) <= RangeStart(k)
             /\ j # k => ~\E p \in 1..RangeEnd(Len(arch.entries)) :
                            InRange(j, p) /\ InRange(k, p)
        /\ (pc = "table" /\ written = {})
           => /\ file = table
              /\ \A k \in 1..Len(arch.entries) :
                   /\ arch.version \in {1, 2} => RangeEnd(k) <= Len(file)
                   /\ \A p \in 1..Len(file) : InRange(k, p) => file[p] = 0

\* entry k's payload is in the file: it was written with a buffer that
\* holds something, and is not empty
Placed(k) == k \in written /\ buflen # 0 /\ srcs[k] # <<>>

\* byte j (from 1) of the payload of entry k as the format encodes it
EncodedByte(k, j) ==
    XorByte(srcs[k][j], KeyByte(arch.entries[k].magic, j - 1))

\* the file is the table bytes with the range of every written entry
\* holding its encoded payload, and zeros where nothing was written;
\* it does not depend on the order of the writes
FileIsSetOfWrites ==
    LET table  == TableBytes
        placed == {k \in 1..Len(arch.entries) : Placed(k)}
        ends   == {Len(table)} \cup {RangeEnd(k) : k \in placed}
        len    == CHOOSE e \in ends : \A f \in ends : f <= e
    IN  file = [p \in 1..len |->
                  IF \E k \in placed : InRange(k, p)
                  THEN LET k == CHOOSE i \in placed : InRange(i, p)
                       IN  EncodedByte(k, p - RangeStart(k))
                  ELSE IF p <= Len(table) THEN table[p] ELSE 0]

\* a payload write leaves every byte the file had outside the entry's
\* range as it was, and what it adds outside the range is a gap of zeros
WriteStaysInRange ==
    (pc = "table" /\ written' # written)
    => \E k \in written' \ written :
         /\ Len(file') >= Len(file)
         /\ \A p \in 1..Len(file') :
              ~InRange(k, p) => file'[p] = (IF p <= Len(file) THEN file[p] ELSE 0)

\* C12: after write_header and write_entries the payload ranges are
\* pairwise disjoint, in table order and clear of header and table bytes
\* (version 1/2: the zero placeholder after the entry's own record;
\* version 3: contiguous from the terminator on); a payload write changes
\* only bytes of its entry's range, and the file is the same for every
\* order of the payload writes.
C12_PayloadRegions ==
    /\ [](TableWritten => (RegionsLaidOut /\ FileIsSetOfWrites))
    /\ [][WriteStaysInRange]_vars

\* the second payload of a version 3 archive written before the first
C12_Witness ==
    /\ pc = "table"
    /\ arch.version = 3
    /\ Len(arch.entries) = 2
    /\ written = {2}
    /\ buflen = 4
    /\ Len(srcs[1]) = 5
    /\ Len(srcs[2]) = 3
    /\ Len(file) = RangeEnd(2)
    /\ RangeStart(2) = RangeEnd(1)

====
